---- MODULE Spec2Model ----
(***************************************************************************)
(* Model of src/src/ModelLoader.ts: the drag-and-drop loading pipeline     *)
(* getFilesFromItemList -> loadModel -> loadFile (-> zip -> loadFile) ->   *)
(* clearScene / scene.add, run by several overlapping loadModel calls on   *)
(* one scene under the browser's single-threaded event loop.               *)
(*                                                                         *)
(* A string is a sequence of tokens; "." and "/" are tokens of their own,  *)
(* every other token is a run of characters holding neither.               *)
(***************************************************************************)
EXTENDS Integers, Sequences, FiniteSets, TLC

VARIABLES
    dropQueue,     \* drop events the user has still to make
    started,       \* number of handleDrop / loadModel calls made so far
    drop,          \* drop[l]: the input of loadModel call l
    itemsCount,    \* getFilesFromItemList: let itemsCount
    itemsTotal,    \* getFilesFromItemList: let itemsTotal
    files,         \* getFilesFromItemList / loadModel: files
    filesMap,      \* getFilesFromItemList / loadModel: filesMap (own properties)
    pending,       \* readEntries / entry.file callbacks registered, not yet run
    resolveCalls,  \* how often resolve({files, filesMap}) has been called
    pc,            \* where loadModel call l is
    seen,          \* the files loadModel call l found when its await returned
    primary,       \* loadModel: primaryFile (a sequence of at most one file)
    stack,         \* the loadFile calls in flight of call l, outermost first
    dispatched,    \* the names loadFile has been called with by call l, in order
    requests,      \* answers the managers' URL modifiers gave to the decoders
    scene,         \* scene.children
    alerts,        \* alerts[l]: alert() calls made by loadModel call l
    decoders,      \* the loaders createGLTFLoader made for call l, not disposed
    finished       \* the calls whose loadFile settled, in order

aggVars  == <<itemsCount, itemsTotal, files, filesMap, pending, resolveCalls>>
loadVars == <<pc, seen, primary, stack, dispatched, requests, alerts, finished,
              decoders>>
vars     == <<dropQueue, started, drop, aggVars, loadVars, scene>>

\* Number of drop events of one run (loads that may overlap).
MaxDrops == 2

Loads == 1..MaxDrops

(***************************************************************************)
(* Strings                                                                 *)
(***************************************************************************)

Range(s) == {s[i] : i \in 1..Len(s)}

\* String.prototype.toLowerCase, token by token.
ToLower(t) ==
    CASE t = "OBJ" -> "obj"
      [] t = "STL" -> "stl"
      [] t = "ZIP" -> "zip"
      [] OTHER -> t

LowerAll(s) == [i \in 1..Len(s) |-> ToLower(s[i])]

\* name.split('.').pop(): what follows the last "." (the whole string when
\* there is none).
LastDot(s) ==
    LET dots == {i \in 1..Len(s) : s[i] = "."}
    IN  IF dots = {} THEN 0 ELSE CHOOSE i \in dots : \A j \in dots : j <= i

LastSegment(s) == SubSeq(s, LastDot(s) + 1, Len(s))

\* name.split('.').pop()?.toLowerCase() || ''
Extension(name) == LowerAll(LastSegment(name))

\* url.replace(/^(\.?\/)/, '')
StripLeading(url) ==
    IF Len(url) >= 1 /\ url[1] = "/" THEN Tail(url)
    ELSE IF Len(url) >= 2 /\ url[1] = "." /\ url[2] = "/" THEN Tail(Tail(url))
    ELSE url

\* entry.fullPath.slice(1)
Slice1(s) == IF s = <<>> THEN s ELSE Tail(s)

(***************************************************************************)
(* Files, entries and drop inputs                                          *)
(***************************************************************************)

\* What the environment makes of a file's bytes: read is what FileReader
\* does with them ("ok", "empty": a result that is falsy, "error": the error
\* event), decode what the format's decoder (or unzipSync) does with them,
\* refs the URLs the decoder asks its manager for, entries the archive's
\* listing when the bytes are a zip, index whether the parsed geometry has
\* an index buffer.
Bytes(read, decode, refs, entries, index) ==
    [read |-> read, decode |-> decode, refs |-> refs, entries |-> entries,
     index |-> index]

NoData == Bytes("none", "none", {}, <<>>, FALSE)

\* new File([...], name) / the File an entry yields
File(name, data) == [name |-> name, data |-> data]

FileEntry(name, data, ok) ==
    [isFile |-> TRUE, isDirectory |-> FALSE, name |-> name, kids |-> <<>>,
     data |-> data, ok |-> ok]

DirEntry(name, kids, ok) ==
    [isFile |-> FALSE, isDirectory |-> TRUE, name |-> name, kids |-> kids,
     data |-> NoData, ok |-> ok]

OtherEntry(name) ==
    [isFile |-> FALSE, isDirectory |-> FALSE, name |-> name, kids |-> <<>>,
     data |-> NoData, ok |-> TRUE]

\* A DataTransferItem: its kind and what webkitGetAsEntry() returns.
Item(kind, entry) == [kind |-> kind, entry |-> entry]

ItemList(items) == [type |-> "items", items |-> items, list |-> <<>>]
FileList(list)  == [type |-> "filelist", items |-> <<>>, list |-> list]
NoDrop == FileList(<<>>)

(***************************************************************************)
(* Objects used as tables: filesMap and the result of unzipSync are plain  *)
(* objects ({}), so a key that is no own property is looked up on          *)
(* Object.prototype.                                                       *)
(***************************************************************************)

EmptyObject == [k \in {} |-> NoData]

\* Names every plain object inherits (Object.prototype.constructor, ...).
ProtoKeys == {<<"constructor">>, <<"toString">>}

HasOwn(obj, key) == key \in DOMAIN obj

\* obj[key] is truthy
Truthy(obj, key) == HasOwn(obj, key) \/ key \in ProtoKeys

\* The name of the accessor Object.prototype.__proto__: assigning to it
\* replaces the object's prototype and makes no own property.
ProtoSetter == <<"__proto__">>

\* obj[key] = value
Put(obj, key, value) ==
    IF key = ProtoSetter THEN obj
    ELSE [k \in DOMAIN obj \cup {key} |-> IF k = key THEN value ELSE obj[k]]

\* createFilesMap(files), lines 13-19
RECURSIVE createFilesMap(_)
createFilesMap(list) ==
    IF list = <<>> THEN EmptyObject
    ELSE LET n == Len(list)
         IN  Put(createFilesMap(SubSeq(list, 1, n - 1)), list[n].name, list[n])

(***************************************************************************)
(* The URL modifiers                                                       *)
(***************************************************************************)

\* What a URL modifier does with a request: "blob" is URL.createObjectURL
\* of the bytes src, "junk" a blob URL that is backed by no file, "same" the
\* url handed back, "raise" an exception out of the modifier.
Answer(kind, src, url) == [kind |-> kind, src |-> src, url |-> url]

\* manager.setURLModifier of loadModel, lines 346-356
OuterResolve(map, url) ==
    LET key == StripLeading(url)
    IN  IF HasOwn(map, key) THEN Answer("blob", map[key].data, url)
        ELSE IF Truthy(map, key) THEN Answer("raise", NoData, url)
        ELSE Answer("same", NoData, url)

\* zipManager.setURLModifier of loadFile, lines 222-229
ZipResolve(zip, url) ==
    IF HasOwn(zip, url) THEN Answer("blob", zip[url], url)
    ELSE IF Truthy(zip, url) THEN Answer("junk", NoData, url)
    ELSE Answer("same", NoData, url)

OuterManager == [kind |-> "outer", table |-> EmptyObject]
ZipManager(zip) == [kind |-> "zip", table |-> zip]

\* manager.resolveURL(url) for the manager of a loadFile call of load l: the
\* outer modifier reads the filesMap of its loadModel call.
ResolveURL(manager, map, url) ==
    IF manager.kind = "zip" THEN ZipResolve(manager.table, url)
    ELSE OuterResolve(map, url)

\* unzipSync: the object keyed by the entries' paths
RECURSIVE Unzip(_)
Unzip(entries) ==
    IF entries = <<>> THEN EmptyObject
    ELSE LET n == Len(entries)
         IN  Put(Unzip(SubSeq(entries, 1, n - 1)), entries[n].path, entries[n].data)

\* for (const path in zip): the own keys in the order they were first set
RECURSIVE ZipKeys(_)
ZipKeys(entries) ==
    IF entries = <<>> THEN <<>>
    ELSE LET n == Len(entries)
             before == ZipKeys(SubSeq(entries, 1, n - 1))
         IN  IF entries[n].path \in Range(before) THEN before
             ELSE Append(before, entries[n].path)

(***************************************************************************)
(* getFilesFromItemList, lines 27-72.  An aggregation a is the record of   *)
(* the closure's variables: count (itemsCount), total (itemsTotal), files, *)
(* map (filesMap), pending (callbacks handed to readEntries / entry.file   *)
(* that have not run) and calls (calls of resolve).                        *)
(***************************************************************************)

NewAggregation ==
    [count |-> 0, total |-> 0, files |-> <<>>, map |-> EmptyObject,
     pending |-> {}, calls |-> 0]

\* onEntryHandled, lines 36-41
onEntryHandled(a) ==
    LET n == a.count + 1
    IN  [a EXCEPT !.count = n,
                  !.calls = IF n = a.total THEN @ + 1 ELSE @]

\* handleEntry, lines 43-64, up to the callbacks it registers; parent is the
\* fullPath of the directory the entry was listed in.
handleEntry(a, entry, parent) ==
    LET fullPath == parent \o <<"/">> \o entry.name
        a1 == [a EXCEPT !.total = @ + 1]
    IN  IF entry.isDirectory \/ entry.isFile
        THEN [a1 EXCEPT !.pending = @ \cup {[path |-> fullPath, entry |-> entry]}]
        ELSE onEntryHandled(a1)

\* for (const subEntry of entries) handleEntry(subEntry), lines 48-50
RECURSIVE handleEntries(_, _, _)
handleEntries(a, entries, parent) ==
    IF entries = <<>> THEN a
    ELSE handleEntries(handleEntry(a, Head(entries), parent), Tail(entries), parent)

IsFileKind(item) == item.kind = "file"

\* for (const item of items) if (item.kind === 'file') ..., lines 66-70
handleItems(a, items) ==
    LET kept == SelectSeq(items, IsFileKind)
    IN  handleEntries(a, [i \in 1..Len(kept) |-> kept[i].entry], <<>>)

\* a readEntries callback that counts the directory before its children
countedBeforeChildren(a, cb) ==
    handleEntries(onEntryHandled([a EXCEPT !.pending = @ \ {cb}]),
                  cb.entry.kids, cb.path)

\* the readEntries callback, lines 47-52
onEntriesRead(a, cb) ==
    onEntryHandled(
        handleEntries([a EXCEPT !.pending = @ \ {cb}], cb.entry.kids, cb.path))

\* the entry.file callback, lines 54-59
onFile(a, cb) ==
    LET file == File(cb.entry.name, cb.entry.data)
    IN  onEntryHandled(
            [a EXCEPT !.pending = @ \ {cb},
                      !.files = Append(@, file),
                      !.map = Put(@, Slice1(cb.path), file)])

\* readEntries / entry.file fail: no error callback was passed (lines 47,
\* 54), so nothing of the aggregation runs.
onEntryError(a, cb) == [a EXCEPT !.pending = @ \ {cb}]

Aggregation(l) ==
    [count |-> itemsCount[l], total |-> itemsTotal[l], files |-> files[l],
     map |-> filesMap[l], pending |-> pending[l], calls |-> resolveCalls[l]]

SetAggregation(l, a) ==
    /\ itemsCount' = [itemsCount EXCEPT ![l] = a.count]
    /\ itemsTotal' = [itemsTotal EXCEPT ![l] = a.total]
    /\ files' = [files EXCEPT ![l] = a.files]
    /\ filesMap' = [filesMap EXCEPT ![l] = a.map]
    /\ pending' = [pending EXCEPT ![l] = a.pending]
    /\ resolveCalls' = [resolveCalls EXCEPT ![l] = a.calls]

(***************************************************************************)
(* loadFile, lines 112-268, and the end of loadModel, lines 364-387        *)
(***************************************************************************)

\* supportedExtensions of loadModel, line 360
SupportedTopLevel ==
    {<<"stl">>, <<"obj">>, <<"ply">>, <<"gltf">>, <<"glb">>, <<"fbx">>, <<"zip">>}

\* supportedExtensions of the zip branch, line 231
SupportedInZip ==
    {<<"gltf">>, <<"glb">>, <<"fbx">>, <<"obj">>, <<"stl">>, <<"ply">>}

\* the case labels of the switch that lead to a decoder, lines 130-217
DecoderCases ==
    {<<"fbx">>, <<"glb">>, <<"gltf">>, <<"obj">>, <<"ply">>, <<"stl">>}

\* the cases whose decoder completes through callbacks, lines 139-175
AsyncCases == {<<"glb">>, <<"gltf">>}

\* the loaders createGLTFLoader makes and hands to the GLTFLoader, lines 88-97
createGLTFLoader == {"dracoLoader", "ktx2Loader"}

\* loader.dracoLoader?.dispose(); loader.ktx2Loader?.dispose(), lines 149-150
disposeDecoders(live) == live \ {"dracoLoader", "ktx2Loader"}

\* what the case of an extension takes contents to be: the casts of lines
\* 133, 143, 162, 179, 187, 211 and 220
ContentsAs(extension) ==
    CASE extension = <<"fbx">>  -> "binary"
      [] extension = <<"glb">>  -> "binary"
      [] extension = <<"gltf">> -> "text"
      [] extension = <<"obj">>  -> "text"
      [] extension = <<"ply">>  -> "binary"
      [] extension = <<"stl">>  -> "binary"
      [] extension = <<"zip">>  -> "binary"
      [] OTHER -> "none"

\* a reader that reads gltf files only as text
readGltfAsText(extension) ==
    IF extension = <<"gltf">> THEN "text" ELSE "binary"

\* ['gltf', 'obj'].includes(extension), lines 262-266
ReadMode(extension) ==
    IF extension \in {<<"gltf">>, <<"obj">>} THEN "text" ELSE "binary"

First(S) == CHOOSE i \in S : \A j \in S : i <= j

\* files.find without its test: the first file whatever its extension
findPrimaryUnfiltered(fs) == IF fs = <<>> THEN <<>> ELSE <<fs[1]>>

\* files.find(...), line 361: a sequence holding the primary file, or empty
findPrimary(fs) ==
    LET hits == {i \in 1..Len(fs) : Extension(fs[i].name) \in SupportedTopLevel}
    IN  IF hits = {} THEN <<>> ELSE <<fs[First(hits)]>>

\* the loop over the archive with the extensions of loadModel, zip among them
findInZipOrArchive(entries) ==
    LET keys == ZipKeys(entries)
        hits == {i \in 1..Len(keys) : Extension(keys[i]) \in SupportedTopLevel}
    IN  IF hits = {} THEN <<>> ELSE <<keys[First(hits)]>>

\* the loop over the archive with an extension that is not lower-cased
findInZipCaseSensitive(entries) ==
    LET keys == ZipKeys(entries)
        hits == {i \in 1..Len(keys) : LastSegment(keys[i]) \in SupportedInZip}
    IN  IF hits = {} THEN <<>> ELSE <<keys[First(hits)]>>

\* the loop over the archive, lines 232-242: the first path to recurse into
findInZip(entries) ==
    LET keys == ZipKeys(entries)
        hits == {i \in 1..Len(keys) : Extension(keys[i]) \in SupportedInZip}
    IN  IF hits = {} THEN <<>> ELSE <<keys[First(hits)]>>

\* one call of loadFile: its file, its manager and its extension (line 114)
Frame(file, manager) ==
    [file |-> file, manager |-> manager, extension |-> Extension(file.name),
     mode |-> ReadMode(Extension(file.name))]

Top(l) == stack[l][Len(stack[l])]

\* what the decoder of the call on top asks its manager, and the answers
Answers(l) ==
    {[manager |-> Top(l).manager,
      answer |-> ResolveURL(Top(l).manager, filesMap[l], url)] :
        url \in Top(l).file.data.refs}

\* the decoder of the call on top produces an object
Decodes(l) ==
    /\ Top(l).file.data.decode = "ok"
    /\ \A q \in Answers(l) : q.answer.kind # "raise"

\* a ply case without the test of geometry.index: always a Mesh
meshWhateverIndex(l) ==
    LET f == Top(l)
    IN  [from |-> l, name |-> f.file.name,
         isCamera |-> FALSE, isLight |-> FALSE, isAxesHelper |-> FALSE,
         class |-> IF f.extension \in {<<"ply">>, <<"stl">>} THEN "Mesh"
                   ELSE "Group"]

\* the object the call on top resolves with, lines 133-216
Object3D(l) ==
    LET f == Top(l)
    IN  [from |-> l, name |-> f.file.name,
         isCamera |-> FALSE, isLight |-> FALSE, isAxesHelper |-> FALSE,
         class |-> IF f.extension = <<"ply">>
                   THEN (IF f.file.data.index THEN "Mesh" ELSE "Points")
                   ELSE IF f.extension = <<"stl">> THEN "Mesh"
                   ELSE "Group"]

\* the test of clearScene, line 317
IsHelper(child) == child.isCamera \/ child.isLight \/ child.isAxesHelper

IsLight(child) == child.isLight

\* clearScene without its test: every child is removed
clearSceneOfAll(children) == SelectSeq(children, LAMBDA child : FALSE)

\* clearScene with a test that knows lights only
clearSceneKeepingLights(children) == SelectSeq(children, IsLight)

\* clearScene, lines 312-322
clearScene(children) == SelectSeq(children, IsHelper)

\* scene.add(object) without the clearScene before it
addOnly(children, object) == Append(children, object)

\* lines 370-374 once loadFile has resolved: clearScene(scene); scene.add(object)
swapIn(children, object) == Append(clearScene(children), object)

\* loadFile(file, manager) up to reader.readAs...: lines 113-119, 262-266
callLoadFile(l, file, manager) ==
    /\ stack' = [stack EXCEPT ![l] = Append(@, Frame(file, manager))]
    /\ dispatched' = [dispatched EXCEPT ![l] = Append(@, file.name)]
    /\ pc' = [pc EXCEPT ![l] = "reading"]

\* a loadModel that clears the scene before it awaits loadFile: the scene
\* a rejection leaves behind
rejectedAfterClear(l, message) ==
    /\ pc' = [pc EXCEPT ![l] = "failed"]
    /\ alerts' = [alerts EXCEPT ![l] = Append(@, message)]
    /\ finished' = Append(finished, l)
    /\ stack' = [stack EXCEPT ![l] = <<>>]
    /\ scene' = clearScene(scene)

\* a zip case that goes on with the next supported path of the archive when
\* the loadFile call it awaits rejects
rejectedThenNext(l, message) ==
    LET keys == IF Len(stack[l]) = 2
                THEN ZipKeys(stack[l][1].file.data.entries) ELSE <<>>
        here == {i \in 1..Len(keys) : keys[i] = Top(l).file.name}
        later == {i \in 1..Len(keys) :
                     /\ Extension(keys[i]) \in SupportedInZip
                     /\ \A j \in here : j < i}
        zip == Unzip(stack[l][1].file.data.entries)
    IN  IF Len(stack[l]) = 2 /\ later # {}
        THEN /\ pc' = [pc EXCEPT ![l] = "reading"]
             /\ stack' = [stack EXCEPT ![l] =
                    <<stack[l][1],
                      Frame(File(keys[First(later)], zip[keys[First(later)]]),
                            ZipManager(zip))>>]
             /\ UNCHANGED <<alerts, finished, scene>>
        ELSE /\ pc' = [pc EXCEPT ![l] = "failed"]
             /\ alerts' = [alerts EXCEPT ![l] = Append(@, message)]
             /\ finished' = Append(finished, l)
             /\ stack' = [stack EXCEPT ![l] = <<>>]
             /\ scene' = scene

\* loadFile rejects: every loadFile call in flight rejects (lines 252-254)
\* and loadModel's catch runs, lines 377-381
rejected(l, message) ==
    /\ pc' = [pc EXCEPT ![l] = "failed"]
    /\ alerts' = [alerts EXCEPT ![l] = Append(@, message)]
    /\ finished' = Append(finished, l)
    /\ stack' = [stack EXCEPT ![l] = <<>>]
    /\ scene' = scene

\* loadFile resolves: every loadFile call in flight resolves with the object
\* (line 239) and loadModel goes on, lines 367-376
resolved(l, object) ==
    /\ pc' = [pc EXCEPT ![l] = "done"]
    /\ alerts' = alerts
    /\ finished' = Append(finished, l)
    /\ stack' = [stack EXCEPT ![l] = <<>>]
    /\ scene' = swapIn(scene, object)

\* loadModel from the return of its await (line 336) or from line 342 on to
\* its first suspension, fs being files
afterAwait(l, fs) ==
    /\ seen' = [seen EXCEPT ![l] = fs]
    /\ UNCHANGED <<requests, finished, scene, decoders>>
    /\ IF Len(fs) = 0
       THEN /\ pc' = [pc EXCEPT ![l] = "returned"]
            /\ UNCHANGED <<primary, stack, dispatched, alerts>>
       ELSE /\ primary' = [primary EXCEPT ![l] = findPrimary(fs)]
            /\ IF findPrimary(fs) = <<>>
               THEN /\ pc' = [pc EXCEPT ![l] = "nosupport"]
                    /\ alerts' = [alerts EXCEPT ![l] = Append(@, "NoSupportedFile")]
                    /\ UNCHANGED <<stack, dispatched>>
               ELSE /\ callLoadFile(l, findPrimary(fs)[1], OuterManager)
                    /\ alerts' = alerts

\* a step of the aggregation of load l from a to b: the first call of
\* resolve lets loadModel go on in the same turn of the event loop
aggregated(l, a, b) ==
    /\ SetAggregation(l, b)
    /\ IF a.calls = 0 /\ b.calls > 0
       THEN afterAwait(l, b.files)
       ELSE UNCHANGED <<loadVars, scene>>

(***************************************************************************)
(* The inputs of a run                                                     *)
(***************************************************************************)

Good       == Bytes("ok", "ok", {}, <<>>, TRUE)
Cloud      == Bytes("ok", "ok", {}, <<>>, FALSE)
Corrupt    == Bytes("ok", "fail", {}, <<>>, FALSE)
Unreadable == Bytes("error", "ok", {}, <<>>, FALSE)
Blank      == Bytes("empty", "ok", {}, <<>>, FALSE)

ObjName  == <<"m", ".", "obj">>
StlName  == <<"p", ".", "stl">>
StlUpper == <<"P", ".", "STL">>
ObjUpper == <<"M", ".", "OBJ">>
PlyName  == <<"c", ".", "ply">>
GltfName == <<"s", ".", "gltf">>
TxtName  == <<"n", ".", "txt">>
PngName  == <<"t", ".", "png">>
ZipName  == <<"b", ".", "zip">>
OddName  == <<"constructor">>

\* the URLs a model file asks for: a sibling by name, with "./" and with "/"
\* in front, one doubled prefix, a file that is not there, a name every
\* object inherits
Urls ==
    {PngName, <<".", "/">> \o PngName, <<"/">> \o PngName,
     <<"/", "/">> \o PngName, <<"x", ".", "png">>, OddName}

Asking == Bytes("ok", "ok", Urls, <<>>, TRUE)
Polite == Bytes("ok", "ok", Urls \ {OddName}, <<>>, TRUE)

ZipEntry(path, data) == [path |-> path, data |-> data]

Archive(entries) == Bytes("ok", "ok", {}, entries, FALSE)

\* bundle.zip: readme.txt, mesh/part.gltf, t.png, a second model
BundleOf(model) ==
    Archive(<<ZipEntry(<<"readme", ".", "txt">>, Good),
              ZipEntry(<<"mesh", "/", "part", ".", "gltf">>, model),
              ZipEntry(PngName, Cloud),
              ZipEntry(ObjName, Good)>>)

Bundle == BundleOf(Polite)
OddBundle == BundleOf(Asking)

BrokenBundle == Archive(<<ZipEntry(GltfName, Corrupt), ZipEntry(ObjName, Good)>>)
NoModelBundle == Archive(<<ZipEntry(TxtName, Good), ZipEntry(ZipName, Good)>>)
BadArchive == Bytes("ok", "fail", {}, <<>>, FALSE)

\* an archive whose only entry is an archive that holds a model
NestedBundle ==
    Archive(<<ZipEntry(<<"in", ".", "zip">>, Archive(<<ZipEntry(ObjName, Good)>>))>>)

\* an archive listing a text file, an archive, P.STL and m.obj, in that order
CaseBundle ==
    Archive(<<ZipEntry(TxtName, Good), ZipEntry(<<"in", ".", "zip">>, Good),
              ZipEntry(StlUpper, Good), ZipEntry(ObjName, Good)>>)

FileItem(name, data) == Item("file", FileEntry(name, data, TRUE))

\* drops that several overlapping loads are run with
SimpleDrops ==
    {ItemList(<<FileItem(ObjName, Good)>>),
     ItemList(<<FileItem(StlName, Corrupt)>>),
     ItemList(<<FileItem(GltfName, Good)>>)}

\* drops that one load is run with
TreeDrops ==
    {ItemList(<<Item("file", OtherEntry(<<"x">>)), FileItem(StlName, Good)>>),
     ItemList(<<FileItem(ObjName, Good), FileItem(StlUpper, Good)>>),
     ItemList(<<Item("file",
                     DirEntry(<<"d">>,
                              <<FileEntry(TxtName, Good, TRUE),
                                OtherEntry(<<"x">>),
                                DirEntry(<<"e">>, <<FileEntry(PlyName, Cloud, TRUE)>>, TRUE)>>,
                              TRUE)),
                FileItem(GltfName, Asking)>>),
     ItemList(<<Item("string", OtherEntry(<<"x">>))>>),
     ItemList(<<>>),
     ItemList(<<Item("file", DirEntry(<<"d">>, <<>>, TRUE))>>),
     ItemList(<<Item("file",
                     DirEntry(<<"d">>,
                              <<FileEntry(TxtName, Good, TRUE),
                                OtherEntry(<<"x">>),
                                DirEntry(<<"e">>, <<FileEntry(PlyName, Cloud, TRUE)>>, TRUE)>>,
                              TRUE))>>),
     ItemList(<<Item("file", FileEntry(TxtName, Good, FALSE)), FileItem(StlName, Good)>>),
     ItemList(<<Item("file", DirEntry(<<"d">>, <<FileEntry(ObjName, Good, TRUE)>>, FALSE))>>),
     ItemList(<<FileItem(TxtName, Good)>>),
     ItemList(<<FileItem(TxtName, Good), FileItem(PngName, Good)>>),
     ItemList(<<FileItem(ObjName, Unreadable)>>),
     ItemList(<<FileItem(ObjName, Blank)>>),
     ItemList(<<FileItem(PngName, Good), FileItem(ZipName, Bundle)>>),
     ItemList(<<FileItem(OddName, Good), FileItem(PngName, Good),
                FileItem(ZipName, OddBundle)>>),
     ItemList(<<FileItem(ZipName, BrokenBundle)>>),
     ItemList(<<FileItem(ZipName, NoModelBundle)>>),
     ItemList(<<FileItem(ZipName, BadArchive)>>),
     ItemList(<<FileItem(ZipName, CaseBundle)>>),
     ItemList(<<FileItem(ZipName, NestedBundle)>>),
     ItemList(<<FileItem(ObjUpper, Good)>>),
     ItemList(<<FileItem(PlyName, Good)>>),
     ItemList(<<FileItem(PlyName, Cloud)>>),
     ItemList(<<FileItem(StlName, Cloud)>>),
     FileList(<<>>),
     FileList(<<File(TxtName, Good)>>),
     FileList(<<File(ProtoSetter, Good), File(ObjName, Good)>>),
     FileList(<<File(PngName, Good), File(GltfName, Asking), File(PngName, Cloud)>>)}

RECURSIVE SeqsUpTo(_, _)
SeqsUpTo(S, n) ==
    IF n = 0 THEN {<<>>}
    ELSE LET shorter == SeqsUpTo(S, n - 1)
         IN  shorter \cup {Append(q, d) : q \in shorter, d \in S}

Queues == {<<d>> : d \in TreeDrops} \cup (SeqsUpTo(SimpleDrops, MaxDrops) \ {<<>>})

Child(name, isCamera, isLight, isAxesHelper, class) ==
    [from |-> 0, name |-> name, isCamera |-> isCamera, isLight |-> isLight,
     isAxesHelper |-> isAxesHelper, class |-> class]

AmbientLight == Child(<<"ambientLight">>, FALSE, TRUE, FALSE, "Light")
Camera       == Child(<<"camera">>, TRUE, FALSE, FALSE, "Camera")
Axes         == Child(<<"axes">>, FALSE, FALSE, TRUE, "AxesHelper")
OldModel     == Child(<<"old">>, FALSE, FALSE, FALSE, "Mesh")

\* the scene of initThree (lights only), and scenes a caller may pass
InitScenes ==
    {<<AmbientLight>>, <<AmbientLight, OldModel, Camera, Axes>>}

(***************************************************************************)
(* The state machine                                                       *)
(***************************************************************************)

Init ==
    /\ dropQueue \in Queues
    /\ started = 0
    /\ drop = [l \in Loads |-> NoDrop]
    /\ itemsCount = [l \in Loads |-> 0]
    /\ itemsTotal = [l \in Loads |-> 0]
    /\ files = [l \in Loads |-> <<>>]
    /\ filesMap = [l \in Loads |-> EmptyObject]
    /\ pending = [l \in Loads |-> {}]
    /\ resolveCalls = [l \in Loads |-> 0]
    /\ pc = [l \in Loads |-> "idle"]
    /\ seen = [l \in Loads |-> <<>>]
    /\ primary = [l \in Loads |-> <<>>]
    /\ stack = [l \in Loads |-> <<>>]
    /\ dispatched = [l \in Loads |-> <<>>]
    /\ requests = [l \in Loads |-> {}]
    /\ alerts = [l \in Loads |-> <<>>]
    /\ decoders = [l \in Loads |-> {}]
    /\ finished = <<>>
    /\ scene \in InitScenes

\* handleDrop, lines 477-483, and loadModel up to its first suspension:
\* the executor of getFilesFromItemList (lines 30-70) for an item list,
\* lines 338-339 for a file list
HandleDrop ==
    /\ dropQueue # <<>>
    /\ started < MaxDrops
    /\ LET l == started + 1
           d == Head(dropQueue)
           a == IF d.type = "items" THEN handleItems(NewAggregation, d.items)
                ELSE [NewAggregation EXCEPT !.files = d.list,
                                            !.map = createFilesMap(d.list)]
       IN  /\ dropQueue' = Tail(dropQueue)
           /\ started' = l
           /\ drop' = [drop EXCEPT ![l] = d]
           /\ SetAggregation(l, a)
           /\ IF d.type = "filelist" \/ a.calls > 0
              THEN afterAwait(l, a.files)
              ELSE /\ pc' = [pc EXCEPT ![l] = "aggregating"]
                   /\ UNCHANGED <<seen, primary, stack, dispatched, requests,
                                  alerts, finished, scene, decoders>>

\* the callback of reader.readEntries runs, lines 47-52
EntriesRead(l) ==
    \E cb \in pending[l] :
        /\ cb.entry.isDirectory /\ cb.entry.ok
        /\ aggregated(l, Aggregation(l), onEntriesRead(Aggregation(l), cb))
        /\ UNCHANGED <<dropQueue, started, drop>>

\* the callback of entry.file runs, lines 54-59
FileRead(l) ==
    \E cb \in pending[l] :
        /\ cb.entry.isFile /\ cb.entry.ok
        /\ aggregated(l, Aggregation(l), onFile(Aggregation(l), cb))
        /\ UNCHANGED <<dropQueue, started, drop>>

\* a listing or a file read fails
EntryError(l) ==
    \E cb \in pending[l] :
        /\ ~cb.entry.ok
        /\ aggregated(l, Aggregation(l), onEntryError(Aggregation(l), cb))
        /\ UNCHANGED <<dropQueue, started, drop>>

\* the reader's error event, line 259
ReaderError(l) ==
    /\ pc[l] = "reading"
    /\ Top(l).file.data.read = "error"
    /\ rejected(l, "ReaderError")
    /\ UNCHANGED <<dropQueue, started, drop, aggVars, seen, primary, dispatched,
                   requests, decoders>>

\* the reader's load event, lines 121-129, up to the first await of its
\* case; the zip case (lines 219-245) runs on to the reader of the file it
\* recurses into
ReaderLoad(l) ==
    /\ pc[l] = "reading"
    /\ Top(l).file.data.read # "error"
    /\ UNCHANGED <<dropQueue, started, drop, aggVars, seen, primary, requests,
                   decoders>>
    /\ LET f == Top(l)
           inner == findInZip(f.file.data.entries)
           zip == Unzip(f.file.data.entries)
       IN  IF f.file.data.read = "empty"
           THEN rejected(l, "FileReadFailed") /\ UNCHANGED dispatched
           ELSE IF f.extension \in DecoderCases
           THEN /\ pc' = [pc EXCEPT ![l] = "importing"]
                /\ UNCHANGED <<stack, dispatched, alerts, finished, scene>>
           ELSE IF f.extension = <<"zip">>
           THEN IF f.file.data.decode # "ok"
                THEN rejected(l, "DecodeError") /\ UNCHANGED dispatched
                ELSE IF inner = <<>>
                THEN rejected(l, "NoModelInZip") /\ UNCHANGED dispatched
                ELSE /\ callLoadFile(l, File(inner[1], zip[inner[1]]), ZipManager(zip))
                     /\ UNCHANGED <<alerts, finished, scene>>
           ELSE rejected(l, "UnsupportedFormat") /\ UNCHANGED dispatched

\* the await import(...) of a decoder case returns and the decoder is run,
\* lines 131-217: the synchronous decoders settle loadFile, the GLTF loader
\* is handed its callbacks
Imported(l) ==
    /\ pc[l] = "importing"
    /\ requests' = [requests EXCEPT ![l] = @ \cup Answers(l)]
    /\ UNCHANGED <<dropQueue, started, drop, aggVars, seen, primary, dispatched>>
    /\ IF Top(l).extension \in AsyncCases
       THEN /\ pc' = [pc EXCEPT ![l] = "parsing"]
            /\ decoders' = [decoders EXCEPT ![l] = createGLTFLoader]
            /\ UNCHANGED <<stack, alerts, finished, scene>>
       ELSE /\ decoders' = decoders
            /\ IF Decodes(l)
               THEN resolved(l, Object3D(l))
               ELSE rejected(l, "DecodeError")

\* a callback of loader.parse runs, lines 145-153
Parsed(l) ==
    /\ pc[l] = "parsing"
    /\ UNCHANGED <<dropQueue, started, drop, aggVars, seen, primary, dispatched,
                   requests>>
    /\ IF Decodes(l)
       THEN /\ decoders' = [decoders EXCEPT ![l] = disposeDecoders(@)]
            /\ resolved(l, Object3D(l))
       ELSE /\ decoders' = decoders
            /\ rejected(l, "DecodeError")

Next ==
    \/ HandleDrop
    \/ \E l \in Loads : EntriesRead(l)
    \/ \E l \in Loads : FileRead(l)
    \/ \E l \in Loads : EntryError(l)
    \/ \E l \in Loads : ReaderError(l)
    \/ \E l \in Loads : ReaderLoad(l)
    \/ \E l \in Loads : Imported(l)
    \/ \E l \in Loads : Parsed(l)

Spec == Init /\ [][Next]_vars

(***************************************************************************)
(* What the claims are stated with                                         *)
(***************************************************************************)

\* the file entries below a list of entries, in listing order (depth first,
\* each directory's children where the directory is listed), as the records
\* the aggregation would register them with
RECURSIVE Listing(_, _)
Listing(entries, parent) ==
    IF entries = <<>> THEN <<>>
    ELSE LET e == Head(entries)
             fullPath == parent \o <<"/">> \o e.name
             here == IF e.isFile
                     THEN <<[key |-> Slice1(fullPath), file |-> File(e.name, e.data)]>>
                     ELSE IF e.isDirectory THEN Listing(e.kids, fullPath)
                     ELSE <<>>
         IN  here \o Listing(Tail(entries), parent)

\* the file entries of the drop of load l
Dropped(l) ==
    LET kept == SelectSeq(drop[l].items, IsFileKind)
    IN  Listing([i \in 1..Len(kept) |-> kept[i].entry], <<>>)

Awaiting(l) == pc[l] \in {"idle", "aggregating"}

InFlight(l) == pc[l] \in {"reading", "importing", "parsing"}

Holds(l) == \E i \in 1..Len(scene) : scene[i].from = l

Helpers(children) ==
    {c \in Range(children) : c.isCamera \/ c.isLight \/ c.isAxesHelper}

Position(l) == CHOOSE i \in 1..Len(finished) : finished[i] = l

TopLevelSet == {"stl", "obj", "ply", "gltf", "glb", "fbx", "zip"}

\* no file of fs has an extension of the supported top-level set
NoneSupported(fs) ==
    \A i \in 1..Len(fs) :
        LET ext == Extension(fs[i].name)
        IN  ~(Len(ext) = 1 /\ ext[1] \in TopLevelSet)

(***************************************************************************)
(* C1: when the promise of getFilesFromItemList has been resolved, every   *)
(* file entry of the dropped tree is in files and in filesMap.             *)
(***************************************************************************)
C1_BarrierAfterAllFiles ==
    \A l \in Loads :
        (drop[l].type = "items" /\ resolveCalls[l] > 0) =>
            \A i \in 1..Len(Dropped(l)) :
                /\ Dropped(l)[i].file \in Range(files[l])
                /\ HasOwn(filesMap[l], Dropped(l)[i].key)

(***************************************************************************)
(* C2: the barrier cannot stall: once no callback of the aggregation of a  *)
(* started load is outstanding, its promise has been resolved and every    *)
(* entry has been counted as completed.                                    *)
(***************************************************************************)
C2_BarrierResolves ==
    \A l \in Loads :
        (l <= started /\ drop[l].type = "items" /\ pending[l] = {}) =>
            /\ resolveCalls[l] > 0
            /\ itemsCount[l] = itemsTotal[l]

(***************************************************************************)
(* C3: a step in which loadFile rejects leaves the scene's children as     *)
(* they were, adds nothing of the load to the scene and makes exactly one  *)
(* alert, the only one of that load.                                       *)
(***************************************************************************)
C3_FailureLeavesScene ==
    [][\A l \in Loads :
          (InFlight(l) /\ pc'[l] = "failed") =>
              /\ scene' = scene
              /\ ~\E i \in 1..Len(scene') : scene'[i].from = l
              /\ Len(alerts[l]) = 0
              /\ Len(alerts'[l]) = 1]_vars

C3_Witness ==
    \E l \in Loads :
        /\ pc[l] = "failed"
        /\ Len(dispatched[l]) >= 1
        /\ OldModel \in Range(scene)

C5_SwapKeepsHelpers ==
    [][\A l \in Loads :
          (InFlight(l) /\ pc'[l] = "done") =>
              LET n == Len(scene')
              IN  /\ n >= 1
                  /\ scene'[n].from = l
                  /\ scene'[n] \notin Helpers(scene')
                  /\ Helpers(scene) = Range(SubSeq(scene', 1, n - 1))
                  /\ n - 1 = Cardinality(Helpers(scene))]_vars

C5_Witness ==
    \E l \in Loads :
        /\ pc[l] = "done"
        /\ Holds(l)
        /\ {Camera, Axes, AmbientLight} \subseteq Range(scene)
        /\ OldModel \notin Range(scene)

(***************************************************************************)
(* C6: of two loads that both succeeded, the scene holds no object of the  *)
(* one whose loadFile settled first, and it holds the object of the one    *)
(* that settled last of all successful loads.                              *)
(***************************************************************************)
C6_LastCompletedWins ==
    \A a, b \in Loads :
        (a # b /\ pc[a] = "done" /\ pc[b] = "done" /\ Position(a) < Position(b)) =>
            /\ ~Holds(a)
            /\ (\A c \in Loads : (pc[c] = "done" => Position(c) <= Position(b)))
                   => Holds(b)

\* the second drop arrived while the first load was in flight, ended first,
\* and the scene holds the object of the first
C6_Witness ==
    /\ pc[1] = "done" /\ pc[2] = "done"
    /\ Position(2) < Position(1)
    /\ Holds(1) /\ ~Holds(2)

(***************************************************************************)
(* C7: the primary file is the first file with a supported extension in    *)
(* the listing order of the dropped entries, whatever the order in which   *)
(* the callbacks ran (stated for the loads that found every file).         *)
(***************************************************************************)
C7_PrimaryByListingOrder ==
    \A l \in Loads :
        (~Awaiting(l) /\ drop[l].type = "items"
            /\ Len(seen[l]) = Len(Dropped(l)) /\ Len(seen[l]) > 0) =>
            primary[l] =
                findPrimary([i \in 1..Len(Dropped(l)) |-> Dropped(l)[i].file])

\* the table a request was answered from, as a function from keys to bytes
TableOf(l, q) ==
    IF q.manager.kind = "zip" THEN q.manager.table
    ELSE [k \in DOMAIN filesMap[l] |-> filesMap[l][k].data]

\* the key a resolver is to look a reference up with: one leading "./" or
\* "/" taken off
Normalized(url) ==
    IF Len(url) >= 2 /\ SubSeq(url, 1, 2) = <<".", "/">> THEN SubSeq(url, 3, Len(url))
    ELSE IF Len(url) >= 1 /\ SubSeq(url, 1, 1) = <<"/">> THEN SubSeq(url, 2, Len(url))
    ELSE url

(***************************************************************************)
(* C8: both resolvers are total: no request is answered by an exception,   *)
(* and a reference whose key is not in the resolver's table is handed back *)
(* unchanged.                                                              *)
(***************************************************************************)
C8_ResolveTotal ==
    \A l \in Loads : \A q \in requests[l] :
        /\ q.answer.kind # "raise"
        /\ Normalized(q.answer.url) \notin DOMAIN TableOf(l, q) =>
               q.answer.kind = "same"

(***************************************************************************)
(* C9: in the outer and in the nested virtual file system a reference p,   *)
(* "./" p or "/" p, p a key of the table, is answered with a handle backed *)
(* by the file stored under p.                                             *)
(***************************************************************************)
C9_ResolveNormalizes ==
    \A l \in Loads : \A q \in requests[l] :
        \A p \in DOMAIN TableOf(l, q) :
            q.answer.url \in {p, <<".", "/">> \o p, <<"/">> \o p} =>
                (q.answer.kind = "blob" /\ q.answer.src = TableOf(l, q)[p])

(***************************************************************************)
(* C10: a request made while the file found in an archive is decoded is    *)
(* answered from the archive's entries alone: a handle it gets is backed   *)
(* by the entry of that name, and a reference that names a dropped file    *)
(* but no entry of the archive is handed back unresolved.                  *)
(***************************************************************************)
C10_ArchiveScoped ==
    \A l \in Loads : \A q \in requests[l] :
        q.manager.kind = "zip" =>
            /\ q.answer.kind \in {"blob", "junk"} =>
                   /\ HasOwn(q.manager.table, q.answer.url)
                   /\ q.answer.src = q.manager.table[q.answer.url]
            /\ (HasOwn(filesMap[l], Normalized(q.answer.url))
                  /\ ~HasOwn(q.manager.table, q.answer.url)) =>
                   q.answer.kind = "same"


(***************************************************************************)
(* C11: once the zip case of loadFile has run for an archive that was read *)
(* and unzipped, loadFile has been called for exactly one entry, the first *)
(* in the archive's listed order whose lower-cased extension is one of     *)
(* gltf, glb, fbx, obj, stl, ply; when no entry has such an extension the  *)
(* load has failed with the no-model message and nothing was dispatched.   *)
(***************************************************************************)
ModelExtensions == {"gltf", "glb", "fbx", "obj", "stl", "ply"}

RECURSIVE FirstModelPath(_)
FirstModelPath(entries) ==
    IF entries = <<>> THEN <<>>
    ELSE LET ext == Extension(Head(entries).path)
         IN  IF Len(ext) = 1 /\ ext[1] \in ModelExtensions
             THEN <<Head(entries).path>>
             ELSE FirstModelPath(Tail(entries))

\* load l was given an archive and the zip case has run past unzipSync
Expanded(l) ==
    /\ primary[l] # <<>>
    /\ Extension(primary[l][1].name) = <<"zip">>
    /\ primary[l][1].data.read = "ok"
    /\ primary[l][1].data.decode = "ok"
    /\ ~(pc[l] = "reading" /\ Len(stack[l]) = 1)

C11_FirstSupportedEntry ==
    \A l \in Loads :
        Expanded(l) =>
            LET archive == primary[l][1]
                want == FirstModelPath(archive.data.entries)
            IN  IF want = <<>>
                THEN /\ dispatched[l] = <<archive.name>>
                     /\ pc[l] = "failed"
                     /\ alerts[l] = <<"NoModelInZip">>
                ELSE dispatched[l] = <<archive.name, want[1]>>

C11_Witness ==
    \E l \in Loads :
        /\ Expanded(l)
        /\ primary[l][1].data = CaseBundle
        /\ dispatched[l] = <<ZipName, StlUpper>>
        /\ pc[l] = "done"


(***************************************************************************)
(* C12: when loadFile has settled, by success or by failure, no Draco or   *)
(* KTX2 loader made for the load is left undisposed.                       *)
(***************************************************************************)
C12_DecodersReleased ==
    \A l \in Loads : pc[l] \in {"done", "failed"} => decoders[l] = {}


(***************************************************************************)
(* C13: every loadFile call reads its file as text exactly when the        *)
(* lower-cased last dot-segment of the file name is gltf or obj and as     *)
(* binary otherwise, and a call that has reached a decoder is in the one   *)
(* case of its extension, whose decoder takes the content in the           *)
(* representation it was read in.                                          *)
(***************************************************************************)
TextExtensions == {"gltf", "obj"}

ReadAsText(name) ==
    LET dots == {i \in 1..Len(name) : name[i] = "."}
        from == IF dots = {} THEN 1 ELSE 1 + CHOOSE i \in dots : \A j \in dots : j <= i
    IN  /\ from = Len(name)
        /\ ToLower(name[from]) \in TextExtensions

C13_ReadByExtension ==
    \A l \in Loads :
        /\ \A i \in 1..Len(stack[l]) :
               stack[l][i].mode = IF ReadAsText(stack[l][i].file.name)
                                  THEN "text" ELSE "binary"
        /\ pc[l] \in {"importing", "parsing"} =>
               /\ Top(l).extension \in DecoderCases
               /\ Top(l).mode = ContentsAs(Top(l).extension)
        /\ pc[l] = "parsing" => Top(l).extension \in AsyncCases

C13_Witness ==
    \E l \in Loads :
        /\ pc[l] = "importing"
        /\ Top(l).file.name = ObjUpper
        /\ Top(l).mode = "text"


(***************************************************************************)
(* C14: the object a load has put into the scene for a ply file is a Mesh  *)
(* exactly when the parsed geometry has an index and a Points exactly when *)
(* it has none; the object for an stl file is a Mesh whatever the index.   *)
(* C14_IndexDecides is the statement with stl classified like ply.         *)
(***************************************************************************)
\* load l decoded the file it was given, of one of the extensions exts, and
\* its object is in the scene
Shows(l, exts) ==
    /\ pc[l] = "done" /\ Holds(l)
    /\ Extension(primary[l][1].name) \in exts

Wrapped(l) == (CHOOSE c \in Range(scene) : c.from = l).class

ByIndex(l) ==
    /\ Wrapped(l) = "Mesh" <=> primary[l][1].data.index
    /\ Wrapped(l) = "Points" <=> ~primary[l][1].data.index

C14_IndexDecides ==
    \A l \in Loads : Shows(l, {<<"ply">>, <<"stl">>}) => ByIndex(l)

C14_PlyByIndexStlMesh ==
    \A l \in Loads :
        /\ Shows(l, {<<"ply">>}) => ByIndex(l)
        /\ Shows(l, {<<"stl">>}) => Wrapped(l) = "Mesh"

C14_Witness ==
    \E l \in Loads :
        /\ Shows(l, {<<"ply">>})
        /\ ~primary[l][1].data.index
        /\ Wrapped(l) = "Points"


(***************************************************************************)
(* C15: for a load started with a flat file list, the own keys of filesMap *)
(* are exactly the names of the files of the list, and every name is       *)
(* mapped to the last file of the list that bears it.                      *)
(***************************************************************************)
LastNamed(fs, name) ==
    fs[CHOOSE i \in 1..Len(fs) :
          /\ fs[i].name = name
          /\ \A j \in 1..Len(fs) : fs[j].name = name => j <= i]

C15_KeysAreNames ==
    \A l \in Loads :
        (l <= started /\ drop[l].type = "filelist") =>
            LET fs == drop[l].list
            IN  /\ DOMAIN filesMap[l] = {fs[i].name : i \in 1..Len(fs)}
                /\ \A i \in 1..Len(fs) :
                       filesMap[l][fs[i].name] = LastNamed(fs, fs[i].name)


(***************************************************************************)
(* C16: itemsCount never exceeds itemsTotal and resolve is not called a    *)
(* second time: once a call of onEntryHandled has found the two counters   *)
(* equal, no later call finds them equal again.                            *)
(***************************************************************************)
C16_ResolvesOnce ==
    \A l \in Loads :
        /\ itemsCount[l] <= itemsTotal[l]
        /\ resolveCalls[l] <= 1


(***************************************************************************)
(* C17: every entry whose callback is outstanding has been counted in      *)
(* itemsTotal and not in itemsCount, so itemsCount is below itemsTotal as  *)
(* long as a listed directory has an entry of its subtree outstanding; and *)
(* when the drop is one top-level directory, resolve has only been called  *)
(* when every entry of the tree has been counted as expected and as        *)
(* handled and every file of the tree is in files.                         *)
(***************************************************************************)
RECURSIVE EntryCount(_)
EntryCount(entries) ==
    IF entries = <<>> THEN 0
    ELSE 1 + EntryCount(Head(entries).kids) + EntryCount(Tail(entries))

SingleDirectory(l) ==
    /\ drop[l].type = "items"
    /\ Len(drop[l].items) = 1
    /\ drop[l].items[1].kind = "file"
    /\ drop[l].items[1].entry.isDirectory

C17_DirectoryAfterChildren ==
    \A l \in Loads :
        /\ itemsCount[l] + Cardinality(pending[l]) <= itemsTotal[l]
        /\ (SingleDirectory(l) /\ resolveCalls[l] > 0) =>
               /\ pending[l] = {}
               /\ itemsTotal[l] = EntryCount(<<drop[l].items[1].entry>>)
               /\ itemsCount[l] = itemsTotal[l]
               /\ \A i \in 1..Len(Dropped(l)) :
                      Dropped(l)[i].file \in Range(files[l])

C17_Witness ==
    \E l \in Loads :
        /\ SingleDirectory(l)
        /\ resolveCalls[l] = 1
        /\ itemsTotal[l] = 5
        /\ Len(files[l]) = 2


(***************************************************************************)
(* C18: once the zip case has called loadFile for an entry, the next       *)
(* change of the load's calls is the settling of the whole load: no other  *)
(* entry is dispatched, a failure of the entry fails the load with that    *)
(* failure as its only alert and the scene untouched, and no load settles  *)
(* twice.                                                                  *)
(***************************************************************************)
Settled(order, l) == Cardinality({i \in 1..Len(order) : order[i] = l})

C18_NoRetry ==
    [][\A l \in Loads :
           /\ Settled(finished', l) <= 1
           /\ (Len(stack[l]) = 2 /\ stack'[l] # stack[l]) =>
                  /\ stack'[l] = <<>>
                  /\ dispatched'[l] = dispatched[l]
                  /\ Settled(finished', l) = 1
                  /\ pc'[l] \in {"done", "failed"}
                  /\ pc'[l] = "failed" =>
                         /\ Len(alerts'[l]) = 1
                         /\ alerts'[l][1] \in {"ReaderError", "FileReadFailed",
                                               "DecodeError"}
                         /\ scene' = scene]_vars

C18_Witness ==
    \E l \in Loads :
        /\ primary[l] # <<>>
        /\ primary[l][1].data = BrokenBundle
        /\ dispatched[l] = <<ZipName, GltfName>>
        /\ pc[l] = "failed"
        /\ alerts[l] = <<"DecodeError">>
        /\ Settled(finished, l) = 1


(***************************************************************************)
(* C19: a load never has more than two loadFile calls in flight and never  *)
(* calls loadFile more than twice; the second call is for a file out of an *)
(* archive that is no archive itself; and an archive in which archives are *)
(* the only entries loadModel would accept fails with the no-model message *)
(* without a second call.                                                  *)
(***************************************************************************)
OnlyArchives(entries) ==
    /\ \E i \in 1..Len(entries) : Extension(entries[i].path) = <<"zip">>
    /\ FirstModelPath(entries) = <<>>

C19_DepthTwo ==
    \A l \in Loads :
        /\ Len(stack[l]) <= 2
        /\ Len(dispatched[l]) <= 2
        /\ Len(dispatched[l]) = 2 =>
               /\ Extension(dispatched[l][1]) = <<"zip">>
               /\ Extension(dispatched[l][2]) # <<"zip">>
        /\ Len(stack[l]) = 2 =>
               /\ stack[l][1].extension = <<"zip">>
               /\ stack[l][2].extension # <<"zip">>
        /\ (Expanded(l) /\ OnlyArchives(primary[l][1].data.entries)) =>
               /\ pc[l] = "failed"
               /\ alerts[l] = <<"NoModelInZip">>
               /\ Len(dispatched[l]) = 1

C19_Witness ==
    \E l \in Loads :
        /\ Expanded(l)
        /\ primary[l][1].data = NestedBundle
        /\ pc[l] = "failed"
        /\ alerts[l] = <<"NoModelInZip">>
        /\ dispatched[l] = <<ZipName>>


(***************************************************************************)
(* C20: started with at most one child that is no camera, light or axes    *)
(* helper, the scene has at most one such child after every step of any    *)
(* number of overlapping loads, and its cameras, lights and axes helpers   *)
(* are after every step the ones it had before the step, in their order.   *)
(***************************************************************************)
Kept(children) ==
    SelectSeq(children, LAMBDA c : c.isCamera \/ c.isLight \/ c.isAxesHelper)

Models(children) ==
    SelectSeq(children, LAMBDA c : ~(c.isCamera \/ c.isLight \/ c.isAxesHelper))

C20_OneModelSameHelpers ==
    [][/\ Kept(scene') = Kept(scene)
       /\ Len(Models(scene)) <= 1 => Len(Models(scene')) <= 1]_vars

C20_Witness ==
    /\ pc[1] = "done" /\ pc[2] = "done"
    /\ finished = <<2, 1>>
    /\ Kept(scene) = <<AmbientLight, Camera, Axes>>
    /\ Len(Models(scene)) = 1
    /\ Models(scene)[1].from = 1

====
